---- MODULE Spec2Model ----
(***************************************************************************)
(* A model of createChatGPTContext.js: the ignore-rule build, the binary   *)
(* detector, the two directory traversals, the formatter, the comment      *)
(* stripper and the main try/catch.                                        *)
(*                                                                         *)
(* Three specifications share the module:                                  *)
(*   Spec          a whole run of the script over a small file system      *)
(*   SpecBinary    isBinaryFile applied to byte buffers                    *)
(*   SpecComments  removeComments applied to source texts, once and twice  *)
(***************************************************************************)
EXTENDS Integers, Sequences, FiniteSets, TLC

VARIABLES
    \* ---- Spec: the file system and the run of the script
    fs,             \* the directory tree under process.cwd(), a sequence of entries
    pc,             \* position of the main script
    ig,             \* the ignore instance: its rules, in the order they were added
    fileStructure,  \* the object getDirectoryStructure returned: none, or one
    structureText,  \* the lines formatStructure returned: none, or one
    filesText,      \* the blocks readAllFiles returned: none, or one
    outputFile,     \* output.txt: none while absent, or its content
    writes,         \* how many times output.txt was written in this run
    done,           \* history: the statements of the try block that completed
    thrown,         \* the message of the error the try block threw, or NoError
    stderr,         \* what console.error printed
    warnings,       \* what console.warn printed, in order
    exitCode,       \* the exit status of the process: none until it ends
    \* ---- SpecBinary
    buffer,         \* the bytes of the file, as runs <<byte, count>>
    binary,         \* the values isBinaryFile returned: none, or one
    \* ---- SpecComments
    text,           \* the source text, a sequence of characters
    stripped,       \* removeComments(text), or NotRun
    restripped      \* removeComments(removeComments(text)), or NotRun

runVars == <<fs, pc, ig, fileStructure, structureText, filesText, outputFile,
             writes, done, thrown, stderr, warnings, exitCode>>
binaryVars == <<buffer, binary>>
commentVars == <<text, stripped, restripped>>
vars == <<runVars, binaryVars, commentVars>>

NotRun == "NotRun"

(***************************************************************************)
(* Bounds of the model.                                                    *)
(***************************************************************************)
MaxLen == 5        \* characters in a source text given to removeComments
MaxRuns == 2       \* runs of equal bytes in a file given to isBinaryFile
MaxNodes == 2      \* files and directories under the base directory

(***************************************************************************)
(* removeComments (src/createChatGPTContext.js 160-186).                   *)
(*                                                                         *)
(* A text is a sequence of characters, each a one-character string.  The   *)
(* sixteen-or-more characters of a placeholder "__PRESERVED__<n>__" are    *)
(* kept as one element: none of the other characters of the alphabet is    *)
(* "_", a letter of PRESERVED or a digit, so no placeholder can form from  *)
(* or overlap with neighbouring characters, and each of the four patterns  *)
(* treats the run of placeholder characters as it treats one ordinary      *)
(* character that is no quote, slash, star, backslash, newline or flag.    *)
(* The only line terminator in the alphabet is "\n".                       *)
(***************************************************************************)
NL == "\n"
BS == "\\"
\* The quote characters of stringPattern that the alphabet can hold: the third,
\* the back-tick, cannot be written in a string of this language; the pattern
\* treats it exactly as it treats the other two.
Quotes == {"'", "\""}
Flags == {"g", "i", "m", "s", "u", "y"}

Placeholder(n) == "__PRESERVED__" \o ToString(n) \o "__"

\* String(undefined), what the restore callback yields for an index that
\* preservedItems does not hold.
Undefined == <<"u", "n", "d", "e", "f", "i", "n", "e", "d">>

\* (?:(?!\1|\\).|\\.)* from position i with \1 = q: the position where the
\* greedy loop stops.  Each iteration is forced by its first character (a
\* backslash takes the second alternative, anything else but q the first),
\* so backtracking reaches only positions that do not hold q.
RECURSIVE StringBodyEnd(_, _, _)
StringBodyEnd(t, i, q) ==
    IF i > Len(t) THEN i
    ELSE IF t[i] = BS
         THEN IF i + 1 <= Len(t) /\ t[i + 1] # NL
              THEN StringBodyEnd(t, i + 2, q)
              ELSE i
         ELSE IF t[i] = q \/ t[i] = NL
              THEN i
              ELSE StringBodyEnd(t, i + 1, q)

\* stringPattern, /(Q)(?:(?!\1|\\).|\\.)*\1/ with Q a quote character, tried at position i: the position of the
\* last character of the match, 0 when there is none.
stringPattern(t, i) ==
    IF t[i] \notin Quotes THEN 0
    ELSE LET j == StringBodyEnd(t, i + 1, t[i])
         IN  IF j <= Len(t) /\ t[j] = t[i] THEN j ELSE 0

\* [^/\\\n]+ from position i: where the greedy run stops.
RECURSIVE ClassRunEnd(_, _)
ClassRunEnd(t, i) ==
    IF i <= Len(t) /\ t[i] \notin {"/", BS, NL}
    THEN ClassRunEnd(t, i + 1)
    ELSE i

\* [gimsuy]* from position i: where it stops.
RECURSIVE FlagsEnd(_, _)
FlagsEnd(t, i) ==
    IF i <= Len(t) /\ t[i] \in Flags THEN FlagsEnd(t, i + 1) ELSE i

\* /\/(?!\*)[^/\\\n]+\/[gimsuy]*/ tried at position i: the position of the last
\* character of the match, 0 when there is none.
regexPattern(t, i) ==
    IF t[i] # "/" THEN 0
    ELSE IF i + 1 <= Len(t) /\ t[i + 1] = "*" THEN 0
    ELSE LET j == ClassRunEnd(t, i + 1)
         IN  IF j > i + 1 /\ j <= Len(t) /\ t[j] = "/"
             THEN FlagsEnd(t, j + 1) - 1
             ELSE 0

\* text.replace(stringPattern, match => { push; return placeholder }): the
\* matches leftmost first, none overlapping.  acc is the text built so far.
RECURSIVE PreserveStrings(_, _, _, _)
PreserveStrings(t, i, acc, items) ==
    IF i > Len(t) THEN [text |-> acc, preservedItems |-> items]
    ELSE LET e == stringPattern(t, i)
         IN  IF e = 0
             THEN PreserveStrings(t, i + 1, Append(acc, t[i]), items)
             ELSE PreserveStrings(t, e + 1,
                                  Append(acc, Placeholder(Len(items))),
                                  Append(items, SubSeq(t, i, e)))

\* .replace(regexPattern, match => { push; return placeholder })
RECURSIVE PreserveRegexes(_, _, _, _)
PreserveRegexes(t, i, acc, items) ==
    IF i > Len(t) THEN [text |-> acc, preservedItems |-> items]
    ELSE LET e == regexPattern(t, i)
         IN  IF e = 0
             THEN PreserveRegexes(t, i + 1, Append(acc, t[i]), items)
             ELSE PreserveRegexes(t, e + 1,
                                  Append(acc, Placeholder(Len(items))),
                                  Append(items, SubSeq(t, i, e)))

\* .* from position i: the first position holding a line terminator, or
\* Len(t) + 1.  The lookahead (?=[\n\r]|$) then holds there.
RECURSIVE LineEnd(_, _)
LineEnd(t, i) ==
    IF i <= Len(t) /\ t[i] # NL THEN LineEnd(t, i + 1) ELSE i

\* .replace(/\/\/.*(?=[\n\r]|$)/g, '')
RECURSIVE RemoveSingleLine(_, _, _)
RemoveSingleLine(t, i, acc) ==
    IF i > Len(t) THEN acc
    ELSE IF t[i] = "/" /\ i + 1 <= Len(t) /\ t[i + 1] = "/"
         THEN RemoveSingleLine(t, LineEnd(t, i + 2), acc)
         ELSE RemoveSingleLine(t, i + 1, Append(acc, t[i]))

\* [\s\S]*?\*\/ from position i: the position of the "/" of the first "*/"
\* at or after i, 0 when there is none.
RECURSIVE BlockEnd(_, _)
BlockEnd(t, i) ==
    IF i + 1 > Len(t) THEN 0
    ELSE IF t[i] = "*" /\ t[i + 1] = "/" THEN i + 1
    ELSE BlockEnd(t, i + 1)

\* .replace(/\/\*[\s\S]*?\*\//g, '')
RECURSIVE RemoveMultiLine(_, _, _)
RemoveMultiLine(t, i, acc) ==
    IF i > Len(t) THEN acc
    ELSE LET e == IF t[i] = "/" /\ i + 1 <= Len(t) /\ t[i + 1] = "*"
                  THEN BlockEnd(t, i + 2)
                  ELSE 0
         IN  IF e = 0
             THEN RemoveMultiLine(t, i + 1, Append(acc, t[i]))
             ELSE RemoveMultiLine(t, e + 1, acc)

\* (_, index) => preservedItems[Number(index)], made a string by replace
RestoreOne(tok, items) ==
    IF \E n \in 0..(Len(items) - 1) : tok = Placeholder(n)
    THEN items[(CHOOSE n \in 0..(Len(items) - 1) : tok = Placeholder(n)) + 1]
    ELSE Undefined

\* .replace(/__PRESERVED__(\d+)__/g, ...): one pass, the restored text is
\* not scanned again.
RECURSIVE Restore(_, _, _, _)
Restore(t, i, acc, items) ==
    IF i > Len(t) THEN acc
    ELSE IF Len(t[i]) > 1
         THEN Restore(t, i + 1, acc \o RestoreOne(t[i], items), items)
         ELSE Restore(t, i + 1, Append(acc, t[i]), items)

\* What removeComments holds after the two preserving replaces.
Preserved(t) ==
    LET s == PreserveStrings(t, 1, <<>>, <<>>)
    IN  PreserveRegexes(s.text, 1, <<>>, s.preservedItems)

removeComments(t) ==
    LET p == Preserved(t)
        noSingle == RemoveSingleLine(p.text, 1, <<>>)
        noMulti == RemoveMultiLine(noSingle, 1, <<>>)
    IN  Restore(noMulti, 1, <<>>, p.preservedItems)

\* The characters the checked source texts are made of.
Alphabet == {"'", "\"", "/", "*", BS, NL, "g", Placeholder(0)}

\* The caller's text grows by one character.
TypeChar ==
    /\ stripped = NotRun
    /\ Len(text) < MaxLen
    /\ \E c \in Alphabet : text' = Append(text, c)
    /\ UNCHANGED <<stripped, restripped>>
    /\ UNCHANGED <<runVars, binaryVars>>

\* fileContent = removeComments(fileContent)
StripOnce ==
    /\ stripped = NotRun
    /\ stripped' = removeComments(text)
    /\ UNCHANGED <<text, restripped>>
    /\ UNCHANGED <<runVars, binaryVars>>

\* removeComments applied to its own result
StripAgain ==
    /\ stripped # NotRun
    /\ restripped = NotRun
    /\ restripped' = removeComments(stripped)
    /\ UNCHANGED <<text, stripped>>
    /\ UNCHANGED <<runVars, binaryVars>>

CommentsNext ==
    \/ TypeChar
    \/ StripOnce
    \/ StripAgain

(***************************************************************************)
(* The literals of a source text, by a lexer that is not the code's: the   *)
(* reference the properties of removeComments are stated against.  A "/"   *)
(* that follows an operand (an identifier, a literal) is a division sign;  *)
(* any other "/" that is not the start of a comment starts a regex literal *)
(* when a body without unescaped "/" or newline and a closing "/" follow.  *)
(***************************************************************************)
\* The closing quote of the string literal opened before position i, or 0.
RECURSIVE LexStringEnd(_, _, _)
LexStringEnd(t, i, q) ==
    IF i > Len(t) \/ t[i] = NL THEN 0
    ELSE IF t[i] = q THEN i
    ELSE IF t[i] = BS
         THEN IF i + 1 <= Len(t) /\ t[i + 1] # NL
              THEN LexStringEnd(t, i + 2, q)
              ELSE 0
         ELSE LexStringEnd(t, i + 1, q)

\* The closing "/" of the regex literal whose body starts at position i and
\* holds n characters so far, or 0.
RECURSIVE LexRegexEnd(_, _, _)
LexRegexEnd(t, i, n) ==
    IF i > Len(t) \/ t[i] = NL THEN 0
    ELSE IF t[i] = "/" THEN (IF n > 0 THEN i ELSE 0)
    ELSE IF t[i] = BS
         THEN IF i + 1 <= Len(t) /\ t[i + 1] # NL
              THEN LexRegexEnd(t, i + 2, n + 1)
              ELSE 0
         ELSE LexRegexEnd(t, i + 1, n + 1)

\* The literals of t from position i on: records [kind, lit].
RECURSIVE Lex(_, _, _)
Lex(t, i, afterOperand) ==
    IF i > Len(t) THEN {}
    ELSE IF t[i] \in Quotes
    THEN LET e == LexStringEnd(t, i + 1, t[i])
         IN  IF e = 0 THEN Lex(t, i + 1, FALSE)
             ELSE {[kind |-> "string", lit |-> SubSeq(t, i, e)]}
                     \cup Lex(t, e + 1, TRUE)
    ELSE IF t[i] = "/" /\ i + 1 <= Len(t) /\ t[i + 1] = "/"
    THEN Lex(t, LineEnd(t, i + 2), afterOperand)
    ELSE IF t[i] = "/" /\ i + 1 <= Len(t) /\ t[i + 1] = "*"
    THEN LET e == BlockEnd(t, i + 2)
         IN  IF e = 0 THEN {} ELSE Lex(t, e + 1, afterOperand)
    ELSE IF t[i] = "/"
    THEN LET e == IF afterOperand THEN 0 ELSE LexRegexEnd(t, i + 1, 0)
         IN  IF e = 0 THEN Lex(t, i + 1, FALSE)
             ELSE LET f == FlagsEnd(t, e + 1) - 1
                  IN  {[kind |-> "regex", lit |-> SubSeq(t, i, f)]}
                          \cup Lex(t, f + 1, TRUE)
    ELSE IF t[i] = NL THEN Lex(t, i + 1, afterOperand)
    ELSE IF t[i] \in {"*", BS} THEN Lex(t, i + 1, FALSE)
    ELSE Lex(t, i + 1, TRUE)

StringLiterals(t) == {l.lit : l \in {m \in Lex(t, 1, FALSE) : m.kind = "string"}}
RegexLiterals(t) == {l.lit : l \in {m \in Lex(t, 1, FALSE) : m.kind = "regex"}}

\* l is a contiguous part of t.
Occurs(l, t) ==
    \E i \in 1..(Len(t) - Len(l) + 1) : SubSeq(t, i, i + Len(l) - 1) = l

\* C6: every string literal of the source text appears verbatim in the result
\* of removeComments.
C6_StringLiteralsPreserved ==
    stripped # NotRun =>
        \A l \in StringLiterals(text) : Occurs(l, stripped)

\* C7: every regex literal of the source text, the ones with backslash-escaped
\* slashes included, is left untouched by removeComments: it appears verbatim
\* in the result.
C7_RegexLiteralsUntouched ==
    stripped # NotRun =>
        \A l \in RegexLiterals(text) : Occurs(l, stripped)

\* C8: removeComments is idempotent: applied to its own result it returns that
\* result.
C8_Idempotent ==
    restripped # NotRun => restripped = stripped


(***************************************************************************)
(* isBinaryFile (src/createChatGPTContext.js 80-100).                      *)
(*                                                                         *)
(* A buffer is a sequence of runs <<byte, count>>: count bytes of value    *)
(* byte.  ByteAt reads one byte of it, as buffer[i] does.                  *)
(***************************************************************************)
maxBytes == 8000

RECURSIVE RunsLength(_, _)
RunsLength(buf, r) ==
    IF r > Len(buf) THEN 0 ELSE buf[r][2] + RunsLength(buf, r + 1)

\* buffer.length
BufferLength(buf) == RunsLength(buf, 1)

RECURSIVE ByteAtFrom(_, _, _)
ByteAtFrom(buf, r, i) ==
    IF i < buf[r][2] THEN buf[r][1] ELSE ByteAtFrom(buf, r + 1, i - buf[r][2])

\* buffer[i], 0 <= i < buffer.length
ByteAt(buf, i) == ByteAtFrom(buf, 1, i)

Min(a, b) == IF a < b THEN a ELSE b

\* One iteration of the for loop on one byte: the return inside it, or what it
\* adds to nonTextBytes.
LoopBody(byte) ==
    IF byte = 0
    THEN [returned |-> TRUE, nonTextBytes |-> 0]
    ELSE [returned |-> FALSE,
          nonTextBytes |->
              IF (byte < 7 \/ (byte > 14 /\ byte < 32))
                     /\ byte # 9 /\ byte # 10 /\ byte # 13
              THEN 1 ELSE 0]

\* The iterations i = lo .. hi of the for loop, in order, lo <= hi: whether one
\* of them returned true, and else the count they added.  The range is split
\* in two halves run one after the other, so that 8000 iterations nest 13 deep;
\* the second half is not run when the first returned.
RECURSIVE ForLoop(_, _, _)
ForLoop(buf, lo, hi) ==
    IF lo = hi THEN LoopBody(ByteAt(buf, lo))
    ELSE LET mid == (lo + hi) \div 2
             first == ForLoop(buf, lo, mid)
         IN  IF first.returned THEN first
             ELSE LET second == ForLoop(buf, mid + 1, hi)
                  IN  [returned |-> second.returned,
                       nonTextBytes |-> first.nonTextBytes + second.nonTextBytes]

\* nonTextBytes / bytesToCheck, a double: NaN for 0 / 0, else the quotient,
\* kept as the fraction it rounds.
Divide(a, b) ==
    IF b = 0 THEN [nan |-> TRUE, num |-> a, den |-> b]
             ELSE [nan |-> FALSE, num |-> a, den |-> b]

\* the comparison with >= in place of >
ratioAboveOrEqual(ratio) ==
    IF ratio.nan THEN FALSE ELSE 10 * ratio.num >= 3 * ratio.den

\* ratio > 0.3.  NaN compares false.  For 0 < den <= 8000 the double nearest
\* num/den is above the double 0.3 exactly when num/den > 3/10: num/den = 3/10
\* rounds to the very double the literal 0.3 is, and any other fraction differs
\* from 3/10 by at least 1/80000, far more than the rounding error.
ratioAbove(ratio) ==
    IF ratio.nan THEN FALSE ELSE 10 * ratio.num > 3 * ratio.den

isBinaryFile(buf) ==
    LET bytesToCheck == Min(BufferLength(buf), maxBytes)
        loop == IF bytesToCheck = 0
                THEN [returned |-> FALSE, nonTextBytes |-> 0]
                ELSE ForLoop(buf, 0, bytesToCheck - 1)
    IN  IF loop.returned THEN TRUE
        ELSE ratioAbove(Divide(loop.nonTextBytes, bytesToCheck))

\* The files the detector is checked on: up to MaxRuns runs, all short or all
\* long.  The short runs try every byte value at which the loop's conditions
\* change; the long runs reach and pass the 8000 bytes read and the 30% of them.
ShortRuns == {0, 1, 6, 7, 9, 10, 13, 14, 15, 31, 32} \X {1, 3, 7}
LongRuns == {<<0, 1>>, <<1, 2400>>, <<1, 2401>>, <<65, 5599>>, <<65, 5600>>}

\* The file grows by a run of bytes.
AppendRun ==
    /\ binary = <<>>
    /\ Len(buffer) < MaxRuns
    /\ \E r \in ShortRuns \cup LongRuns :
          /\ \/ \A k \in 1..Len(buffer) : buffer[k] \in ShortRuns /\ r \in ShortRuns
             \/ \A k \in 1..Len(buffer) : buffer[k] \in LongRuns /\ r \in LongRuns
          /\ buffer' = Append(buffer, r)
    /\ UNCHANGED binary
    /\ UNCHANGED <<runVars, commentVars>>

\* isBinaryFile(fullPath)
Detect ==
    /\ binary = <<>>
    /\ binary' = <<isBinaryFile(buffer)>>
    /\ UNCHANGED buffer
    /\ UNCHANGED <<runVars, commentVars>>

BinaryNext ==
    \/ AppendRun
    \/ Detect

\* The examined prefix and the count of the reference classifier.
Examined(buf) == 0..(Min(BufferLength(buf), maxBytes) - 1)
NonTextCount(buf) ==
    Cardinality({i \in Examined(buf) :
                    LET b == ByteAt(buf, i) IN b < 7 \/ (14 < b /\ b < 32)})

ReferenceClassifier(buf) ==
    LET n == Min(BufferLength(buf), maxBytes)
    IN  IF \E i \in Examined(buf) : ByteAt(buf, i) = 0
        THEN TRUE
        ELSE n > 0 /\ 10 * NonTextCount(buf) > 3 * n

\* C5: isBinaryFile equals the reference classifier over the first
\* min(length, 8000) bytes: true on a 0x00 byte among them, else true exactly
\* when more than 30% of them are below 7 or between 15 and 31.
C5_MatchesReference ==
    binary # <<>> => binary[1] = ReferenceClassifier(buffer)

\* C5's case: a file longer than 8000 bytes whose first 8000 hold exactly 30%
\* non-text bytes and more of them after, classified as text.
C5_Witness ==
    /\ binary = <<FALSE>>
    /\ BufferLength(buffer) > maxBytes
    /\ buffer[Len(buffer)][1] = 1
    /\ 10 * NonTextCount(buffer) = 3 * maxBytes


(***************************************************************************)
(* Configuration (src/createChatGPTContext.js 10-34, 277-278).             *)
(***************************************************************************)
processAllFiles == TRUE
TARGET_EXTENSIONS == {".html", ".js"}
SENSITIVE_FILES ==
    <<".env", ".npmrc", ".yarnrc", ".credentials", ".aws", ".gcp", ".azure",
      "*.sqlite", "*.sqlite3", "*.db", "*.db-journal", "*.sql", "*.bak",
      "*.pem", "*.key", "*.crt", "*.csr", "secrets.json">>
EXCLUDE_DIRS ==
    <<".git", ".hg", ".svn", ".bzr", "node_modules", "vendor",
      "bower_components", "__pycache__", "dist", "build", ".cache",
      "out", "target", ".next", ".nuxt", ".idea", ".vscode",
      ".history", ".sass-cache", ".pytest_cache">>
EXCLUDE_FILES ==
    <<".DS_Store", "Thumbs.db", "*.log", "*.log.*",
      "*.bak", "*.swp", "*.tmp", "*~", "package-lock.json", "package.json">>
removeWhitespaceSetting == FALSE
removeCommentsSetting == FALSE

(***************************************************************************)
(* The file system.  A path is the sequence of its names; process.cwd() is *)
(* Cwd.  fs holds one entry per file or directory under Cwd, in the order  *)
(* the directories list them: [parent, name, kind, content].               *)
(***************************************************************************)
Cwd == <<"cwd">>

\* path.join(dir, item)
PathJoin(dir, item) == Append(dir, item)

\* path.relative(from, to), to under from
PathRelative(from, to) == SubSeq(to, Len(from) + 1, Len(to))

\* The names the entries of the checked file systems take.
NameSamples ==
    {".gitignore", "secrets.json", "id.pem", "relativePath", "__proto__", "2", "10"}

\* path.extname(name) of the names above.
Extname(name) ==
    CASE name = "secrets.json" -> ".json"
      [] name = "id.pem" -> ".pem"
      [] OTHER -> ""

\* The contents the files take: the bytes, and the text they decode to, line
\* by line.  RuleLines is a .gitignore that ignores "10" and re-includes the
\* two sensitive names.
TextContent ==
    [bytes |-> <<<<104, 1>>, <<105, 1>>>>, lines |-> <<"hi">>]
BinaryContent ==
    [bytes |-> <<<<137, 1>>, <<80, 1>>, <<0, 1>>>>, lines |-> <<"\\x89P\\0">>]
RuleLines ==
    [bytes |-> <<<<49, 1>>, <<48, 1>>, <<10, 1>>,
                 <<33, 1>>, <<115, 1>>, <<101, 1>>, <<99, 1>>, <<114, 1>>,
                 <<101, 1>>, <<116, 1>>, <<115, 1>>, <<46, 1>>, <<106, 1>>,
                 <<115, 1>>, <<111, 1>>, <<110, 1>>, <<10, 1>>,
                 <<33, 1>>, <<42, 1>>, <<46, 1>>, <<112, 1>>, <<101, 1>>,
                 <<109, 1>>>>,
     lines |-> <<"10", "!secrets.json", "!*.pem">>]

\* The contents a file of a given name takes: the detector reads bytes, never
\* names, so binary content is tried under two of the names.
ContentsFor(name) ==
    IF name = ".gitignore" THEN {TextContent, RuleLines}
    ELSE IF name \in {"2", "relativePath"} THEN {TextContent, BinaryContent}
    ELSE {TextContent}

\* The entry at path p, which exists.
EntryAt(tree, p) ==
    LET k == CHOOSE k \in 1..Len(tree) :
                 PathJoin(tree[k].parent, tree[k].name) = p
    IN  tree[k]

Exists(tree, p) ==
    \E k \in 1..Len(tree) : PathJoin(tree[k].parent, tree[k].name) = p

\* fs.readdirSync(dir): the names in dir, in the order the directory holds them
RECURSIVE ReaddirFrom(_, _, _)
ReaddirFrom(tree, dir, k) ==
    IF k > Len(tree) THEN <<>>
    ELSE IF tree[k].parent = dir
         THEN <<tree[k].name>> \o ReaddirFrom(tree, dir, k + 1)
         ELSE ReaddirFrom(tree, dir, k + 1)

Readdir(tree, dir) == ReaddirFrom(tree, dir, 1)

\* fs.statSync(p): isDirectory(), size, mtime
Stat(tree, p) ==
    LET e == EntryAt(tree, p)
    IN  [isDirectory |-> e.kind = "dir",
         size |-> IF e.kind = "dir" THEN 0 ELSE BufferLength(e.content.bytes),
         mtime |-> "mtime"]

Directories(tree) ==
    {Cwd} \cup {PathJoin(tree[k].parent, tree[k].name) :
                   k \in {j \in 1..Len(tree) : tree[j].kind = "dir"}}

\* An I/O operation that fails: [op, path], or NoFault.  A pass meets at most
\* one.
NoFault == [op |-> "none", path |-> <<>>]
Faults(tree) ==
    {NoFault}
        \cup {[op |-> "readdir", path |-> d] : d \in Directories(tree)}
        \cup {[op |-> o, path |-> PathJoin(tree[k].parent, tree[k].name)] :
                 o \in {"stat", "read"}, k \in 1..Len(tree)}

(***************************************************************************)
(* The ignore package (not in src/): rules are kept in the order they are  *)
(* added, a path is ignored when one of its parent directories is, and     *)
(* else by the last rule that matches it; a rule whose line starts with    *)
(* "!" re-includes.  A pattern without a slash matches a name at any       *)
(* depth.                                                                  *)
(***************************************************************************)
\* The lines that start with "!", and the pattern each negates.
NegatedPattern ==
    ("!secrets.json" :> "secrets.json") @@ ("!*.pem" :> "*.pem")

MakeRule(line) ==
    IF line \in DOMAIN NegatedPattern
    THEN [negative |-> TRUE, pattern |-> NegatedPattern[line]]
    ELSE [negative |-> FALSE, pattern |-> line]

\* ig.add(lines)
RECURSIVE AddRules(_, _, _)
AddRules(rules, lines, k) ==
    IF k > Len(lines) THEN rules
    ELSE AddRules(Append(rules, MakeRule(lines[k])), lines, k + 1)

\* The patterns "*<ext>" of the lists, and the extension each asks for.  The
\* other two patterns with a star, "*.log.*" and "*~", match no sample name.
GlobExtension ==
    ("*.sqlite" :> ".sqlite") @@ ("*.sqlite3" :> ".sqlite3") @@ ("*.db" :> ".db")
        @@ ("*.db-journal" :> ".db-journal") @@ ("*.sql" :> ".sql")
        @@ ("*.bak" :> ".bak") @@ ("*.pem" :> ".pem") @@ ("*.key" :> ".key")
        @@ ("*.crt" :> ".crt") @@ ("*.csr" :> ".csr") @@ ("*.log" :> ".log")
        @@ ("*.swp" :> ".swp") @@ ("*.tmp" :> ".tmp")

PatternMatches(pattern, name) ==
    \/ pattern = name
    \/ pattern \in DOMAIN GlobExtension /\ GlobExtension[pattern] = Extname(name)

\* The verdict of the rules on one path, its parents aside: the last rule
\* that matches its last name decides.
TestOne(rules, name) ==
    LET matching == {k \in 1..Len(rules) : PatternMatches(rules[k].pattern, name)}
    IN  IF matching = {} THEN FALSE
        ELSE ~rules[CHOOSE k \in matching : \A j \in matching : j <= k].negative

\* ig.ignores(relativePath)
RECURSIVE Ignores(_, _)
Ignores(rules, p) ==
    IF Len(p) > 1 /\ Ignores(rules, SubSeq(p, 1, Len(p) - 1))
    THEN TRUE
    ELSE TestOne(rules, p[Len(p)])

(***************************************************************************)
(* getIgnorePatterns (src/createChatGPTContext.js 46-60): the rules, or    *)
(* the error readFileSync throws.                                          *)
(***************************************************************************)
PredefinedPatterns == EXCLUDE_DIRS \o SENSITIVE_FILES \o EXCLUDE_FILES

\* the two adds the other way round
AddPredefinedFirst(gitignoreLines) ==
    AddRules(AddRules(<<>>, PredefinedPatterns, 1), gitignoreLines, 1)

\* ig.add(gitignoreContent) then ig.add([...predefined])
AddInOrder(gitignoreLines) ==
    AddRules(AddRules(<<>>, gitignoreLines, 1), PredefinedPatterns, 1)

getIgnorePatterns(tree, dir, fault) ==
    LET gitignorePath == PathJoin(dir, ".gitignore")
    IN  IF ~Exists(tree, gitignorePath)
        THEN [ok |-> TRUE, value |-> AddInOrder(<<>>), error |-> "NoError"]
        ELSE IF EntryAt(tree, gitignorePath).kind = "dir"
        THEN [ok |-> FALSE, value |-> <<>>, error |-> "EISDIR: read"]
        ELSE IF fault = [op |-> "read", path |-> gitignorePath]
        THEN [ok |-> FALSE, value |-> <<>>, error |-> "EACCES: read"]
        ELSE [ok |-> TRUE,
              value |-> AddInOrder(EntryAt(tree, gitignorePath).content.lines),
              error |-> "NoError"]

\* shouldProcessFile(file)
shouldProcessFile(file) ==
    IF processAllFiles THEN TRUE ELSE Extname(file) \in TARGET_EXTENSIONS


(***************************************************************************)
(* JavaScript values and plain objects, as far as the script uses them.    *)
(* A value is a record tagged t.  An object keeps its own properties in    *)
(* the order they were created and its prototype: <<>> for                 *)
(* Object.prototype, <<o>> for the object o.  class is not a property: it  *)
(* records which statement of the traversal created the object.            *)
(***************************************************************************)
JsUndefined == [t |-> "undefined", v |-> <<>>]
JsString(x) == [t |-> "string", v |-> x]
JsNumber(n) == [t |-> "number", v |-> n]
JsDate(d) == [t |-> "date", v |-> d]

\* {}
EmptyObject == [t |-> "object", class |-> "directory", own |-> <<>>, proto |-> <<>>]

\* The array index a property key is, -1 when it is none: the canonical
\* decimal strings among the sample names.
ArrayIndex(key) ==
    CASE key = "2" -> 2
      [] key = "10" -> 10
      [] OTHER -> -1

HasOwnProperty(o, key) == \E k \in 1..Len(o.own) : o.own[k].key = key

OwnValue(o, key) ==
    o.own[CHOOSE k \in 1..Len(o.own) : o.own[k].key = key].val

\* key in o
RECURSIVE In(_, _)
In(key, o) ==
    \/ HasOwnProperty(o, key)
    \/ o.proto # <<>> /\ In(key, o.proto[1])

\* o[key].  "__proto__" is the accessor of Object.prototype: it yields the
\* prototype (read here only after it was set to an object).
RECURSIVE Get(_, _)
Get(o, key) ==
    IF key = "__proto__"
    THEN (IF o.proto = <<>> THEN JsUndefined ELSE o.proto[1])
    ELSE IF HasOwnProperty(o, key) THEN OwnValue(o, key)
    ELSE IF o.proto = <<>> THEN JsUndefined
    ELSE Get(o.proto[1], key)

\* o[key] = val, val an object.  "__proto__" runs the setter of
\* Object.prototype, which replaces the prototype and creates no property;
\* any other key keeps its place when it exists and is appended when not.
Set(o, key, val) ==
    IF key = "__proto__"
    THEN [o EXCEPT !.proto = <<val>>]
    ELSE IF HasOwnProperty(o, key)
    THEN [o EXCEPT !.own =
             [k \in 1..Len(o.own) |->
                 IF o.own[k].key = key THEN [key |-> key, val |-> val]
                                       ELSE o.own[k]]]
    ELSE [o EXCEPT !.own = Append(o.own, [key |-> key, val |-> val])]

\* The own keys that are array indices, ascending from above the index lo.
RECURSIVE IndexKeysAbove(_, _)
IndexKeysAbove(o, lo) ==
    LET idx == {ArrayIndex(o.own[k].key) : k \in 1..Len(o.own)}
        above == {n \in idx : n > lo}
    IN  IF above = {} THEN <<>>
        ELSE LET n == CHOOSE n \in above : \A m \in above : n <= m
                 key == o.own[CHOOSE k \in 1..Len(o.own) :
                                  ArrayIndex(o.own[k].key) = n].key
             IN  <<key>> \o IndexKeysAbove(o, n)

\* The own keys that are no array indices, in creation order.
RECURSIVE NameKeysFrom(_, _)
NameKeysFrom(o, k) ==
    IF k > Len(o.own) THEN <<>>
    ELSE IF ArrayIndex(o.own[k].key) < 0
         THEN <<o.own[k].key>> \o NameKeysFrom(o, k + 1)
         ELSE NameKeysFrom(o, k + 1)

\* [[OwnPropertyKeys]]: array indices in ascending numeric order, then the
\* other keys in creation order.
OwnPropertyKeys(o) == IndexKeysAbove(o, -1) \o NameKeysFrom(o, 1)

RECURSIVE Without(_, _)
Without(keys, o) ==
    IF keys = <<>> THEN <<>>
    ELSE IF HasOwnProperty(o, Head(keys)) THEN Without(Tail(keys), o)
         ELSE <<Head(keys)>> \o Without(Tail(keys), o)

\* for (const key in o): the own keys, then the keys of the prototype chain
\* that the object does not shadow.
RECURSIVE ForInKeys(_)
ForInKeys(o) ==
    OwnPropertyKeys(o)
        \o (IF o.proto = <<>> THEN <<>> ELSE Without(ForInKeys(o.proto[1]), o))

(***************************************************************************)
(* getDirectoryStructure (src/createChatGPTContext.js 110-143).            *)
(* The result of a traversal is [ok, value, warn, error]: the value it     *)
(* returns and what it warned, or the error it threw.                      *)
(***************************************************************************)
Thrown(message, warn) ==
    [ok |-> FALSE, value |-> <<>>, warn |-> warn, error |-> message]

Returned(value, warn) ==
    [ok |-> TRUE, value |-> value, warn |-> warn, error |-> "NoError"]

\* { path, relativePath, size, lastModified }
FileEntry(fullPath, relativePath, stats) ==
    [t |-> "object", class |-> "file", proto |-> <<>>,
     own |-> <<[key |-> "path", val |-> JsString(fullPath)],
               [key |-> "relativePath", val |-> JsString(relativePath)],
               [key |-> "size", val |-> JsNumber(stats.size)],
               [key |-> "lastModified", val |-> JsDate(stats.mtime)]>>]

\* The object that fileStructure[item] names is the one the recursive call filled:
\* the own property, or for "__proto__" the prototype.
Filled(o, item, child) == Set(o, item, child)

RECURSIVE getDirectoryStructure(_, _, _, _, _, _, _)
RECURSIVE StructureItems(_, _, _, _, _, _, _, _, _)

\* items.forEach(item => ...) from the k-th item on
StructureItems(tree, dir, items, k, node, parentPath, rules, fault, warn) ==
    IF k > Len(items) THEN Returned(node, warn)
    ELSE
    LET item == items[k]
        fullPath == PathJoin(dir, item)
        relativePath == PathRelative(Cwd, fullPath)
        Rest(o, w) == StructureItems(tree, dir, items, k + 1, o, parentPath,
                                     rules, fault, w)
    IN  IF Ignores(rules, relativePath) THEN Rest(node, warn)
        ELSE IF fault = [op |-> "stat", path |-> fullPath]
        THEN Thrown("ENOENT: stat", warn)
        ELSE
        LET stats == Stat(tree, fullPath)
        IN  IF stats.isDirectory
            THEN LET created == Set(node, item, EmptyObject)
                     sub == getDirectoryStructure(tree, fullPath,
                                Get(created, item), PathJoin(parentPath, item),
                                rules, fault, warn)
                 IN  IF ~sub.ok THEN sub
                     ELSE Rest(Filled(created, item, sub.value), sub.warn)
            ELSE IF shouldProcessFile(item)
            THEN IF fault = [op |-> "read", path |-> fullPath]
                 THEN Thrown("EACCES: read", warn)
                 ELSE IF isBinaryFile(EntryAt(tree, fullPath).content.bytes)
                 THEN Rest(node, Append(warn, relativePath))
                 ELSE Rest(Set(node, item,
                               FileEntry(fullPath, PathJoin(parentPath, item), stats)),
                           warn)
            ELSE Rest(node, warn)

getDirectoryStructure(tree, dir, node, parentPath, rules, fault, warn) ==
    IF fault = [op |-> "readdir", path |-> dir]
    THEN Thrown("EACCES: readdir", warn)
    ELSE StructureItems(tree, dir, Readdir(tree, dir), 1, node,
                        parentPath, rules, fault, warn)

(***************************************************************************)
(* readAllFiles (src/createChatGPTContext.js 198-238).  allText is the     *)
(* sequence of the blocks "File: ..\nPath: ..\n\n<content>\n\n".           *)
(***************************************************************************)
Block(item, parentPath, content) ==
    [file |-> item,
     path |-> PathJoin(parentPath, item),
     content |-> content.lines,
     whitespaceRemoved |-> removeWhitespaceSetting,
     commentsRemoved |-> removeCommentsSetting /\ Extname(item) = ".js"]

RECURSIVE readAllFiles(_, _, _, _, _, _)
RECURSIVE ReadItems(_, _, _, _, _, _, _, _, _)

ReadItems(tree, dir, items, k, allText, parentPath, rules, fault, warn) ==
    IF k > Len(items) THEN Returned(allText, warn)
    ELSE
    LET item == items[k]
        fullPath == PathJoin(dir, item)
        relativePath == PathRelative(Cwd, fullPath)
        Rest(a, w) == ReadItems(tree, dir, items, k + 1, a, parentPath,
                                rules, fault, w)
    IN  IF Ignores(rules, relativePath) THEN Rest(allText, warn)
        ELSE IF fault = [op |-> "stat", path |-> fullPath]
        THEN Thrown("ENOENT: stat", warn)
        ELSE
        IF Stat(tree, fullPath).isDirectory
        THEN LET sub == readAllFiles(tree, fullPath, PathJoin(parentPath, item),
                                     rules, fault, warn)
             IN  IF ~sub.ok THEN sub
                 ELSE Rest(allText \o sub.value, sub.warn)
        ELSE IF shouldProcessFile(item)
        THEN IF fault = [op |-> "read", path |-> fullPath]
             THEN Thrown("EACCES: read", warn)
             ELSE IF isBinaryFile(EntryAt(tree, fullPath).content.bytes)
             THEN Rest(allText, Append(warn, relativePath))
             ELSE Rest(Append(allText,
                              Block(item, parentPath, EntryAt(tree, fullPath).content)),
                       warn)
        ELSE Rest(allText, warn)

readAllFiles(tree, dir, parentPath, rules, fault, warn) ==
    IF fault = [op |-> "readdir", path |-> dir]
    THEN Thrown("EACCES: readdir", warn)
    ELSE ReadItems(tree, dir, Readdir(tree, dir), 1, <<>>, parentPath, rules,
                   fault, warn)

(***************************************************************************)
(* formatStructure (src/createChatGPTContext.js 246-263): the lines, each  *)
(* [indent, key, kind] and for a file line what the template prints.       *)
(***************************************************************************)
\* `${value}`
TemplateText(value) ==
    IF value.t = "object" THEN JsString(<<"[object Object]">>) ELSE value

RECURSIVE formatStructure(_, _)
RECURSIVE FormatKeys(_, _, _, _)

FormatKeys(node, keys, k, indent) ==
    IF k > Len(keys) THEN <<>>
    ELSE
    LET key == keys[k]
        Rest == FormatKeys(node, keys, k + 1, indent)
    IN  IF ~HasOwnProperty(node, key) THEN Rest
        ELSE LET child == Get(node, key)
             IN  IF child.t = "object" /\ In("relativePath", child)
                 THEN <<[indent |-> indent, key |-> key, kind |-> "file",
                         relativePath |-> TemplateText(Get(child, "relativePath")),
                         size |-> TemplateText(Get(child, "size")),
                         lastModified |-> TemplateText(Get(child, "lastModified"))]>>
                          \o Rest
                 ELSE <<[indent |-> indent, key |-> key, kind |-> "directory"]>>
                          \o formatStructure(child, indent + 2)
                          \o Rest

formatStructure(node, indent) ==
    FormatKeys(node, ForInKeys(node), 1, indent)


(***************************************************************************)
(* Main execution (src/createChatGPTContext.js 269-301).                   *)
(***************************************************************************)
\* the try block with the write moved before the content pass
TryBlockWriteEarly ==
    <<"getIgnorePatterns", "getDirectoryStructure", "formatStructure",
      "writeFileSync", "readAllFiles", "console.log">>

\* The statements of the try block, in order.
TryBlock ==
    <<"getIgnorePatterns", "getDirectoryStructure", "formatStructure",
      "readAllFiles", "writeFileSync", "console.log">>

\* Where control goes when statement stmt of the try block completes.
After(stmt) ==
    LET k == CHOOSE k \in 1..Len(TryBlock) : TryBlock[k] = stmt
    IN  IF k = Len(TryBlock) THEN "end" ELSE TryBlock[k + 1]

\* Before the script starts: a file appears in a directory under Cwd.
CreateFile ==
    /\ pc = "idle"
    /\ Len(fs) < MaxNodes
    /\ \E parent \in Directories(fs), name \in NameSamples :
          /\ ~Exists(fs, PathJoin(parent, name))
          /\ \E content \in ContentsFor(name) :
                fs' = Append(fs, [parent |-> parent, name |-> name,
                                  kind |-> "file", content |-> content])
    /\ UNCHANGED <<pc, ig, fileStructure, structureText, filesText, outputFile,
                   writes, done, thrown, stderr, warnings, exitCode>>
    /\ UNCHANGED <<binaryVars, commentVars>>

\* Before the script starts: a directory appears in a directory under Cwd.
CreateDirectory ==
    /\ pc = "idle"
    /\ Len(fs) < MaxNodes
    /\ \E parent \in Directories(fs), name \in NameSamples :
          /\ ~Exists(fs, PathJoin(parent, name))
          /\ fs' = Append(fs, [parent |-> parent, name |-> name,
                               kind |-> "dir", content |-> <<>>])
    /\ UNCHANGED <<pc, ig, fileStructure, structureText, filesText, outputFile,
                   writes, done, thrown, stderr, warnings, exitCode>>
    /\ UNCHANGED <<binaryVars, commentVars>>

\* node createChatGPTContext.js: control enters the try block.
Start ==
    /\ pc = "idle"
    /\ pc' = TryBlock[1]
    /\ UNCHANGED <<fs, ig, fileStructure, structureText, filesText, outputFile,
                   writes, done, thrown, stderr, warnings, exitCode>>
    /\ UNCHANGED <<binaryVars, commentVars>>

\* const ig = getIgnorePatterns(targetDir)
GetIgnorePatterns ==
    /\ pc = "getIgnorePatterns"
    /\ \E fault \in Faults(fs) :
          LET r == getIgnorePatterns(fs, Cwd, fault)
          IN  IF r.ok
              THEN /\ ig' = r.value
                   /\ done' = Append(done, "getIgnorePatterns")
                   /\ pc' = After("getIgnorePatterns")
                   /\ UNCHANGED thrown
              ELSE /\ thrown' = r.error
                   /\ pc' = "catch"
                   /\ UNCHANGED <<ig, done>>
    /\ UNCHANGED <<fs, fileStructure, structureText, filesText, outputFile,
                   writes, stderr, warnings, exitCode>>
    /\ UNCHANGED <<binaryVars, commentVars>>

\* const fileStructure = getDirectoryStructure(targetDir, {}, '', ig)
GetDirectoryStructure ==
    /\ pc = "getDirectoryStructure"
    /\ \E fault \in Faults(fs) :
          LET r == getDirectoryStructure(fs, Cwd, EmptyObject, <<>>, ig, fault, <<>>)
          IN  /\ warnings' = warnings \o r.warn
              /\ IF r.ok
                 THEN /\ fileStructure' = <<r.value>>
                      /\ done' = Append(done, "getDirectoryStructure")
                      /\ pc' = After("getDirectoryStructure")
                      /\ UNCHANGED thrown
                 ELSE /\ thrown' = r.error
                      /\ pc' = "catch"
                      /\ UNCHANGED <<fileStructure, done>>
    /\ UNCHANGED <<fs, ig, structureText, filesText, outputFile, writes,
                   stderr, exitCode>>
    /\ UNCHANGED <<binaryVars, commentVars>>

\* const structureText = formatStructure(fileStructure)
FormatStructure ==
    /\ pc = "formatStructure"
    /\ structureText' = <<formatStructure(fileStructure[1], 0)>>
    /\ done' = Append(done, "formatStructure")
    /\ pc' = After("formatStructure")
    /\ UNCHANGED <<fs, ig, fileStructure, filesText, outputFile, writes,
                   thrown, stderr, warnings, exitCode>>
    /\ UNCHANGED <<binaryVars, commentVars>>

\* const filesText = readAllFiles(targetDir, '', ..., ig)
ReadAllFiles ==
    /\ pc = "readAllFiles"
    /\ \E fault \in Faults(fs) :
          LET r == readAllFiles(fs, Cwd, <<>>, ig, fault, <<>>)
          IN  /\ warnings' = warnings \o r.warn
              /\ IF r.ok
                 THEN /\ filesText' = <<r.value>>
                      /\ done' = Append(done, "readAllFiles")
                      /\ pc' = After("readAllFiles")
                      /\ UNCHANGED thrown
                 ELSE /\ thrown' = r.error
                      /\ pc' = "catch"
                      /\ UNCHANGED <<filesText, done>>
    /\ UNCHANGED <<fs, ig, fileStructure, structureText, outputFile, writes,
                   stderr, exitCode>>
    /\ UNCHANGED <<binaryVars, commentVars>>

\* fs.writeFileSync(outputFilePath, finalOutput, 'utf8'): the file is replaced,
\* or it cannot be opened and the call throws.
WriteFileSync ==
    /\ pc = "writeFileSync"
    /\ \/ /\ outputFile' = <<[structure |-> structureText, contents |-> filesText]>>
          /\ writes' = writes + 1
          /\ done' = Append(done, "writeFileSync")
          /\ pc' = After("writeFileSync")
          /\ UNCHANGED thrown
       \/ /\ thrown' = "EACCES: open"
          /\ pc' = "catch"
          /\ UNCHANGED <<outputFile, writes, done>>
    /\ UNCHANGED <<fs, ig, fileStructure, structureText, filesText, stderr,
                   warnings, exitCode>>
    /\ UNCHANGED <<binaryVars, commentVars>>

\* console.log(`Folder structure and file contents have been saved ...`)
ConsoleLog ==
    /\ pc = "console.log"
    /\ done' = Append(done, "console.log")
    /\ pc' = After("console.log")
    /\ UNCHANGED <<fs, ig, fileStructure, structureText, filesText, outputFile,
                   writes, thrown, stderr, warnings, exitCode>>
    /\ UNCHANGED <<binaryVars, commentVars>>

\* catch (error) { console.error('Error processing directory:', error.message) }
Catch ==
    /\ pc = "catch"
    /\ stderr' = Append(stderr, thrown)
    /\ pc' = "end"
    /\ UNCHANGED <<fs, ig, fileStructure, structureText, filesText, outputFile,
                   writes, done, thrown, warnings, exitCode>>
    /\ UNCHANGED <<binaryVars, commentVars>>

\* The script has run to its last line: nothing set process.exitCode, no error
\* is uncaught, and the process exits with status 0.
Exit ==
    /\ pc = "end"
    /\ exitCode' = <<0>>
    /\ pc' = "exited"
    /\ UNCHANGED <<fs, ig, fileStructure, structureText, filesText, outputFile,
                   writes, done, thrown, stderr, warnings>>
    /\ UNCHANGED <<binaryVars, commentVars>>

RunNext ==
    \/ CreateFile
    \/ CreateDirectory
    \/ Start
    \/ GetIgnorePatterns
    \/ GetDirectoryStructure
    \/ FormatStructure
    \/ ReadAllFiles
    \/ WriteFileSync
    \/ ConsoleLog
    \/ Catch
    \/ Exit

\* Nothing has run: the base directory is empty, no file was given to
\* isBinaryFile and no text to removeComments.
Init ==
    /\ fs = <<>>
    /\ pc = "idle"
    /\ ig = <<>>
    /\ fileStructure = <<>>
    /\ structureText = <<>>
    /\ filesText = <<>>
    /\ outputFile = <<>>
    /\ writes = 0
    /\ done = <<>>
    /\ thrown = "NoError"
    /\ stderr = <<>>
    /\ warnings = <<>>
    /\ exitCode = <<>>
    /\ buffer = <<>>
    /\ binary = <<>>
    /\ text = <<>>
    /\ stripped = NotRun
    /\ restripped = NotRun

SpecComments == Init /\ [][CommentsNext]_vars

SpecBinary == Init /\ [][BinaryNext]_vars

(***************************************************************************)
(* What a run produced, as the properties below speak of it.               *)
(***************************************************************************)
\* The files that have a FileEntry in the tree: the children of the nodes.
RECURSIVE TreeFiles(_)
TreeFiles(node) ==
    UNION {LET child == node.own[k].val
           IN  IF child.class = "file"
               THEN {[file |-> node.own[k].key,
                      path |-> OwnValue(child, "relativePath").v]}
               ELSE TreeFiles(child) : k \in 1..Len(node.own)}

\* The files that have a block in the content text.
BlockFiles(allText) ==
    {[file |-> allText[k].file, path |-> allText[k].path] : k \in 1..Len(allText)}

\* Every name that occurs in the objects of the tree, those reached through a
\* prototype included.
RECURSIVE TreeNames(_)
TreeNames(node) ==
    {node.own[k].key : k \in 1..Len(node.own)}
        \cup UNION {IF node.own[k].val.class = "directory"
                    THEN TreeNames(node.own[k].val) ELSE {} : k \in 1..Len(node.own)}
        \cup (IF node.proto = <<>> THEN {}
              ELSE IF node.proto[1].class = "directory"
                   THEN {"__proto__"} \cup TreeNames(node.proto[1])
                   ELSE {"__proto__"})

\* The relativePath values kept in the objects of the tree.
RECURSIVE TreePaths(_)
TreePaths(node) ==
    IF node.class = "file" THEN {OwnValue(node, "relativePath").v}
    ELSE UNION {TreePaths(node.own[k].val) : k \in 1..Len(node.own)}
            \cup (IF node.proto = <<>> THEN {} ELSE TreePaths(node.proto[1]))

\* A name, or a path with a name, that a pattern of SENSITIVE_FILES matches.
Sensitive(name) ==
    \E k \in 1..Len(SENSITIVE_FILES) : PatternMatches(SENSITIVE_FILES[k], name)

SensitivePath(p) == \E i \in 1..Len(p) : Sensitive(p[i])

\* The errors of the traversal-time I/O steps.
TraversalErrors == {"EACCES: readdir", "ENOENT: stat", "EACCES: read"}

\* The listing formatStructure is to produce: a child attached as a directory
\* is "<name>/" and its children two columns deeper, a child attached as a file
\* is one line with its own relativePath, size and lastModified.
RECURSIVE ListingFrom(_, _, _, _)
ListingFrom(node, keys, k, indent) ==
    IF k > Len(keys) THEN <<>>
    ELSE
    LET key == keys[k]
        Rest == ListingFrom(node, keys, k + 1, indent)
    IN  IF ~HasOwnProperty(node, key) THEN Rest
        ELSE LET child == OwnValue(node, key)
             IN  IF child.class = "file"
                 THEN <<[indent |-> indent, key |-> key, kind |-> "file",
                         relativePath |-> OwnValue(child, "relativePath"),
                         size |-> OwnValue(child, "size"),
                         lastModified |-> OwnValue(child, "lastModified")]>>
                          \o Rest
                 ELSE <<[indent |-> indent, key |-> key, kind |-> "directory"]>>
                          \o ListingFrom(child, ForInKeys(child), 1, indent + 2)
                          \o Rest

Listing(node) == ListingFrom(node, ForInKeys(node), 1, 0)

\* C1: when both passes have completed over the same file system, a file has a
\* FileEntry in the tree exactly when the content text has a block for it, and
\* the block's Path is the entry's relativePath.
C1_PassesKeepSameFiles ==
    (fileStructure # <<>> /\ filesText # <<>>)
        => TreeFiles(fileStructure[1]) = BlockFiles(filesText[1])

\* C2: output.txt is written at most once, and only when the ignore rules, the
\* structure pass, the formatting and the content pass have all completed with
\* no error; a run in which a step failed has written nothing.
C2_WrittenOnceAfterAllPasses ==
    /\ writes <= 1
    /\ writes = 1 =>
          /\ Len(done) >= 5
          /\ SubSeq(done, 1, 5) = <<"getIgnorePatterns", "getDirectoryStructure",
                                    "formatStructure", "readAllFiles",
                                    "writeFileSync">>
          /\ thrown = "NoError"
          /\ fileStructure # <<>> /\ structureText # <<>> /\ filesText # <<>>
          /\ outputFile = <<[structure |-> structureText, contents |-> filesText]>>
    /\ thrown # "NoError" => writes = 0 /\ outputFile = <<>>

\* C2's case: the structure pass and the formatting completed, a file read of
\* the content pass failed, and the run ended without output.txt.
C2_Witness ==
    /\ pc = "exited"
    /\ thrown = "EACCES: read"
    /\ structureText # <<>>
    /\ filesText = <<>>
    /\ outputFile = <<>>

\* C3: a run in which a traversal-time I/O step failed reports the message and
\* ends with a non-zero exit status.
C3_FailureExitsNonZero ==
    (pc = "exited" /\ thrown \in TraversalErrors /\ Len(done) >= 1)
        => /\ stderr = <<thrown>>
           /\ exitCode # <<0>>

\* C4: whatever .gitignore holds, no name that a pattern of SENSITIVE_FILES
\* matches is in the tree, in the listing or in the content text.
C4_SensitiveExcluded ==
    /\ fileStructure # <<>> =>
          /\ \A name \in TreeNames(fileStructure[1]) : ~Sensitive(name)
          /\ \A p \in TreePaths(fileStructure[1]) : ~SensitivePath(p)
    /\ structureText # <<>> =>
          \A i \in 1..Len(structureText[1]) : ~Sensitive(structureText[1][i].key)
    /\ filesText # <<>> =>
          \A i \in 1..Len(filesText[1]) :
              ~Sensitive(filesText[1][i].file) /\ ~SensitivePath(filesText[1][i].path)

\* C4's case: .gitignore re-includes secrets.json and *.pem, a file of such a
\* name is a text file next to it, and the run wrote its output.
C4_Witness ==
    /\ pc = "exited"
    /\ writes = 1
    /\ \E k \in 1..Len(ig) : ig[k].negative
    /\ \E k \in 1..Len(fs) :
          /\ Sensitive(fs[k].name)
          /\ fs[k].kind = "file"
          /\ fs[k].content = TextContent

\* C9: the file lines of the listing are in the order of the blocks of the
\* content text for the same files.
C9_ListingInTraversalOrder ==
    (structureText # <<>> /\ filesText # <<>>) =>
        LET lines == structureText[1]
            blocks == filesText[1]
        IN  \A i, j \in 1..Len(lines) : \A a, b \in 1..Len(blocks) :
                (/\ i < j
                 /\ lines[i].kind = "file" /\ lines[j].kind = "file"
                 /\ lines[i].relativePath = JsString(blocks[a].path)
                 /\ lines[j].relativePath = JsString(blocks[b].path))
                    => a < b

\* C10: every child attached as a directory is rendered "<name>/" followed by
\* its children two columns deeper, every child attached as a file as one file
\* line; no directory is rendered as a file and no file as a directory.
C10_KindsRendered ==
    structureText # <<>> => structureText[1] = Listing(fileStructure[1])

Spec == Init /\ [][RunNext]_vars

====
